---- MODULE Spec2Model ----
(***************************************************************************)
(* A model of routine.py: the Routine (compile, link, load, save) and its  *)
(* Components (Point, Label, Jump, Setting, Command).                       *)
(*                                                                          *)
(* Text is a sequence of atoms.  The characters the code and the csv reader *)
(* treat specially (comma, equals sign, space, double quote, newline) are   *)
(* atoms of their own; any other atom stands for a run of ordinary          *)
(* characters ("label", "True", "2").                                       *)
(***************************************************************************)
EXTENDS Integers, Sequences, FiniteSets, TLC

VARIABLES
    path,       \* Routine.path: the last successfully loaded file name, "" if none
    sequence,   \* Routine.sequence: the top-level Components, as object ids
    labels,     \* Routine.labels: label name -> Label object id
    index,      \* Routine.index: the program counter
    heap,       \* the live Component objects: object id -> fields
    enabled,    \* config.enabled: the global enable flag
    setting,    \* the settings store's value for the one registered key
    disk,       \* the file system: file name -> text
    ret,        \* what the last call of load did: "none", "true", "false", "raised"
    ran,        \* what the last call of execute() did: the object and its effects
    calls       \* history: per Point, the effects of each execute() with the flag on

vars == <<path, sequence, labels, index, heap, enabled, setting, disk, ret, ran, calls>>

-----------------------------------------------------------------------------
(* Bounds of the model. *)

\* The longest source file, in rows.
MaxRows == 3

\* The largest frequency the periodic sources use.
MaxFreq == 3

\* The most executions of one object the history records.
MaxCalls == 5

-----------------------------------------------------------------------------
(* Text. *)

COMMA == ","
EQ == "="
SP == " "
QUOTE == "\""
NL == "\n"

RECURSIVE Concat(_)
\* The concatenation of a sequence of texts.
Concat(ss) == IF ss = <<>> THEN <<>> ELSE Head(ss) \o Concat(Tail(ss))

RECURSIVE Join(_, _)
\* sep.join(ss)
Join(sep, ss) ==
    IF ss = <<>> THEN <<>>
    ELSE IF Len(ss) = 1 THEN Head(ss)
    ELSE Head(ss) \o sep \o Join(sep, Tail(ss))

RECURSIVE LStrip(_)
LStrip(s) == IF s # <<>> /\ Head(s) = SP THEN LStrip(Tail(s)) ELSE s

RECURSIVE RStrip(_)
RStrip(s) ==
    IF s # <<>> /\ s[Len(s)] = SP THEN RStrip(SubSeq(s, 1, Len(s) - 1)) ELSE s

\* str.strip()
Strip(s) == RStrip(LStrip(s))

\* str.find('='): the first position of atom c in s, 0 if there is none.
Find(s, c) ==
    IF \E i \in 1..Len(s) : s[i] = c
    THEN CHOOSE i \in 1..Len(s) : s[i] = c /\ \A j \in 1..(i - 1) : s[j] # c
    ELSE 0

\* str.lower() on the atoms that hold upper-case letters.
LowerAtom(a) ==
    CASE a = "Buff"  -> "buff"
      [] a = "Walk"  -> "walk"
      [] a = "Move"  -> "move"
      [] a = "Adjust" -> "adjust"
      [] a = "True"  -> "true"
      [] a = "False" -> "false"
      [] OTHER       -> a

Lower(s) == [i \in 1..Len(s) |-> LowerAtom(s[i])]

RECURSIVE SplitLines(_, _)
\* The lines of a text: the text between newline atoms.  cur is the line
\* being read.  A text ending in a newline has no further (empty) line.
SplitLines(text, cur) ==
    IF text = <<>> THEN (IF cur = <<>> THEN <<>> ELSE <<cur>>)
    ELSE IF Head(text) = NL THEN <<cur>> \o SplitLines(Tail(text), <<>>)
    ELSE SplitLines(Tail(text), Append(cur, Head(text)))

RECURSIVE CsvFields(_, _, _)
\* csv.reader(f, skipinitialspace=True) on one line: the fields.  mode is
\* "start" at the start of a field, "plain" in an unquoted field, "quoted"
\* inside quotes and "closed" after a closing quote.
CsvFields(line, cur, mode) ==
    IF line = <<>> THEN <<cur>>
    ELSE LET c == Head(line)
             rest == Tail(line)
         IN CASE mode = "start" ->
                   IF c = SP THEN CsvFields(rest, cur, "start")
                   ELSE IF c = QUOTE THEN CsvFields(rest, cur, "quoted")
                   ELSE IF c = COMMA THEN <<cur>> \o CsvFields(rest, <<>>, "start")
                   ELSE CsvFields(rest, Append(cur, c), "plain")
              [] mode = "plain" ->
                   IF c = COMMA THEN <<cur>> \o CsvFields(rest, <<>>, "start")
                   ELSE CsvFields(rest, Append(cur, c), "plain")
              [] mode = "quoted" ->
                   IF c = QUOTE THEN CsvFields(rest, cur, "closed")
                   ELSE CsvFields(rest, Append(cur, c), "quoted")
              [] OTHER ->
                   IF c = COMMA THEN <<cur>> \o CsvFields(rest, <<>>, "start")
                   ELSE IF c = QUOTE THEN CsvFields(rest, Append(cur, c), "quoted")
                   ELSE CsvFields(rest, Append(cur, c), "plain")

\* One row of the csv reader: an empty line is the empty row.
CsvRow(line) == IF line = <<>> THEN <<>> ELSE CsvFields(line, <<>>, "start")

\* The rows csv.reader yields for a text.
CsvRows(text) ==
    LET ls == SplitLines(text, <<>>)
    IN [i \in 1..Len(ls) |-> CsvRow(ls[i])]

-----------------------------------------------------------------------------
(* Arguments and validators (utils, settings, the command book). *)

\* One keyword field: the key and the value around its first '=', stripped.
KeyValue(f) ==
    <<Strip(SubSeq(f, 1, Find(f, EQ) - 1)), Strip(SubSeq(f, Find(f, EQ) + 1, Len(f)))>>

\* The positional and the keyword fields among stripped fields.
SplitArgs(fields) ==
    [args   |-> SelectSeq(fields, LAMBDA f : Find(f, EQ) = 0),
     kwargs |-> SelectSeq([i \in 1..Len(fields) |->
                              IF Find(fields[i], EQ) > 0 THEN KeyValue(fields[i])
                              ELSE <<>>],
                          LAMBDA kv : kv # <<>>)]

\* utils.separate_args: the first '=' splits a field into key and value; a
\* field without one is positional.  Every part is stripped.
separate_args(rest) == SplitArgs([i \in 1..Len(rest) |-> Strip(rest[i])])

\* The atoms int() and float() accept, with their values.
NumAtoms == {"0", "1", "2", "3", "4", "100", "200", "300", "400"}

NumVal(a) ==
    CASE a = "0" -> 0 [] a = "1" -> 1 [] a = "2" -> 2 [] a = "3" -> 3
      [] a = "4" -> 4 [] a = "100" -> 100 [] a = "200" -> 200
      [] a = "300" -> 300 [] OTHER -> 400

\* Whether int(s) / float(s) succeeds (no ValueError).
IsNumber(s) == Len(s) = 1 /\ s[1] \in NumAtoms

Number(s) == NumVal(s[1])

\* utils.validate_nonzero_int: an integer of at least 1, else ValueError.
ValidNonzeroInt(s) == IsNumber(s) /\ Number(s) >= 1

\* utils.validate_boolean: 'true' or 'false' in any case, else ValueError.
ValidBoolean(s) == Lower(s) \in {<<"true">>, <<"false">>}

Boolean(s) == Lower(s) = <<"true">>

\* The position among params of the parameter a keyword names, 0 if none.
ParamOf(params, k) == IF Len(k) = 1 THEN Find(params, k[1]) ELSE 0

\* The value the keywords give parameter p: that of the last keyword naming
\* it (kwargs is a dict), none (the empty sequence) if no keyword does.
KeywordValue(params, kwargs, p) ==
    LET at == {i \in 1..Len(kwargs) : ParamOf(params, kwargs[i][1]) = p}
    IN IF at = {} THEN <<>>
       ELSE <<kwargs[CHOOSE i \in at : \A j \in at : j <= i][2]>>

\* Python's binding of a call's arguments to a signature.  params are the
\* parameter names, the first nreq of them required, defaults the values of
\* the others.  TypeError (ok = FALSE) on too many positional arguments, an
\* unknown keyword, a parameter given twice or a required one left out.
\* vals are the values in parameter order, as locals() holds them.
Bind(params, nreq, defaults, args, kwargs) ==
    IF /\ Len(args) <= Len(params)
       /\ \A i \in 1..Len(kwargs) : ParamOf(params, kwargs[i][1]) > Len(args)
       /\ \A p \in 1..nreq :
             p <= Len(args) \/ KeywordValue(params, kwargs, p) # <<>>
    THEN [ok   |-> TRUE,
          vals |-> [p \in 1..Len(params) |->
                      IF p <= Len(args) THEN args[p]
                      ELSE IF KeywordValue(params, kwargs, p) # <<>>
                      THEN KeywordValue(params, kwargs, p)[1]
                      ELSE defaults[p - nreq]]]
    ELSE [ok |-> FALSE, vals |-> <<>>]

\* Component.__init__: _args is locals() without self and __class__, that is
\* the parameters with their values in signature order.
ComponentArgs(params, vals) == [p \in 1..Len(params) |-> <<params[p], vals[p]>>]

-----------------------------------------------------------------------------
(* Components. *)

\* Label.index before set_index (None).
NoIndex == -1

\* Jump.link before bind (None): no object has id 0.
NoLink == 0

\* An object's fields; a class leaves the fields of the others as they are
\* here.  id is the class's id attribute, args its captured _args.  row is
\* history: the number of the source row the object was built from.
Blank ==
    [cls |-> "", id |-> "", args |-> <<>>, x |-> 0, y |-> 0, frequency |-> 1,
     counter |-> 0, adjust |-> FALSE, commands |-> <<>>, label |-> <<>>,
     links |-> {}, index |-> NoIndex, link |-> NoLink, key |-> <<>>,
     value |-> 0, row |-> 0]

\* A constructor that raised ValueError or TypeError.
Raised == [ok |-> FALSE, obj |-> Blank]

Built(obj) == [ok |-> TRUE, obj |-> obj]

PointParams == <<"x", "y", "frequency", "skip", "adjust">>

\* The body of Point.__init__ on its bound arguments b.
\* A Point whose counter starts inside its range: skip mod frequency.
Point_new_InRange(b) ==
    IF ~b.ok THEN Raised
    ELSE IF ~(IsNumber(b.vals[1]) /\ IsNumber(b.vals[2])) THEN Raised
    ELSE IF ~ValidNonzeroInt(b.vals[3]) THEN Raised
    ELSE IF ~(ValidBoolean(b.vals[4]) /\ ValidBoolean(b.vals[5])) THEN Raised
    ELSE Built([Blank EXCEPT
                  !.cls = "Point", !.id = "*",
                  !.args = ComponentArgs(PointParams, b.vals),
                  !.x = Number(b.vals[1]), !.y = Number(b.vals[2]),
                  !.frequency = Number(b.vals[3]),
                  !.counter = (IF Boolean(b.vals[4]) THEN 1 ELSE 0) % Number(b.vals[3]),
                  !.adjust = Boolean(b.vals[5]),
                  !.commands = <<>>])

Point_new(b) ==
    IF ~b.ok THEN Raised
    ELSE IF ~(IsNumber(b.vals[1]) /\ IsNumber(b.vals[2])) THEN Raised
    ELSE IF ~ValidNonzeroInt(b.vals[3]) THEN Raised
    ELSE IF ~(ValidBoolean(b.vals[4]) /\ ValidBoolean(b.vals[5])) THEN Raised
    ELSE Built([Blank EXCEPT
                  !.cls = "Point", !.id = "*",
                  !.args = ComponentArgs(PointParams, b.vals),
                  !.x = Number(b.vals[1]), !.y = Number(b.vals[2]),
                  !.frequency = Number(b.vals[3]),
                  !.counter = IF Boolean(b.vals[4]) THEN 1 ELSE 0,
                  !.adjust = Boolean(b.vals[5]),
                  !.commands = <<>>])

\* Point.__init__(x, y, frequency=1, skip='False', adjust='False')
Point_init(args, kwargs) ==
    Point_new(Bind(PointParams, 2, <<(<<"1">>), (<<"False">>), (<<"False">>)>>,
                   args, kwargs))

LabelParams == <<"label">>

\* A Label constructor that does not look the name up in Routine.labels.
Label_new_Unchecked(b, labs) ==
    IF ~b.ok THEN Raised
    ELSE Built([Blank EXCEPT
                  !.cls = "Label", !.id = "@",
                  !.args = ComponentArgs(LabelParams, b.vals),
                  !.label = b.vals[1], !.links = {}, !.index = NoIndex])

\* The body of Label.__init__ on its bound arguments b: ValueError when the
\* name is in Routine.labels.
Label_new(b, labs) ==
    IF ~b.ok THEN Raised
    ELSE IF b.vals[1] \in DOMAIN labs THEN Raised
    ELSE Built([Blank EXCEPT
                  !.cls = "Label", !.id = "@",
                  !.args = ComponentArgs(LabelParams, b.vals),
                  !.label = b.vals[1], !.links = {}, !.index = NoIndex])

\* Label.__init__(label)
Label_init(args, kwargs, labs) ==
    Label_new(Bind(LabelParams, 1, <<>>, args, kwargs), labs)

JumpParams == <<"label", "frequency", "skip">>

\* The body of Jump.__init__ on its bound arguments b.
Jump_new(b) ==
    IF ~b.ok THEN Raised
    ELSE IF ~ValidNonzeroInt(b.vals[2]) THEN Raised
    ELSE IF ~ValidBoolean(b.vals[3]) THEN Raised
    ELSE Built([Blank EXCEPT
                  !.cls = "Jump", !.id = ">",
                  !.args = ComponentArgs(JumpParams, b.vals),
                  !.label = b.vals[1], !.frequency = Number(b.vals[2]),
                  !.counter = IF Boolean(b.vals[3]) THEN 1 ELSE 0,
                  !.link = NoLink])

\* Jump.__init__(label, frequency=1, skip='False')
Jump_init(args, kwargs) ==
    Jump_new(Bind(JumpParams, 1, <<(<<"1">>), (<<"False">>)>>, args, kwargs))

SettingParams == <<"key", "value">>

\* settings.SETTING_VALIDATORS: the one registered key; its validator is float.
SettingKeys == {<<"move_tolerance">>}

\* The body of Setting.__init__ on its bound arguments b.
Setting_new(b) ==
    IF ~b.ok THEN Raised
    ELSE IF b.vals[1] \notin SettingKeys THEN Raised
    ELSE IF ~IsNumber(b.vals[2]) THEN Raised
    ELSE Built([Blank EXCEPT
                  !.cls = "Setting", !.id = "$",
                  !.args = ComponentArgs(SettingParams, b.vals),
                  !.key = b.vals[1], !.value = Number(b.vals[2])])

\* Setting.__init__(key, value)
Setting_init(args, kwargs) == Setting_new(Bind(SettingParams, 2, <<>>, args, kwargs))

\* config.command_book: the command names and the class each names.
CommandBook == {<<"move">>, <<"adjust">>, <<"buff">>, <<"walk">>}

CommandClass(first) ==
    CASE first = <<"move">>   -> "Move"
      [] first = <<"adjust">> -> "Adjust"
      [] first = <<"buff">>   -> "Buff"
      [] OTHER                -> "Walk"

CommandParams(first) ==
    CASE first \in {<<"move">>, <<"adjust">>} -> <<"x", "y">>
      [] first = <<"buff">>                   -> <<>>
      [] OTHER                                -> <<"direction">>

\* The body of a command class's __init__ on its bound arguments b: id is
\* the class's name.
Command_new(first, b) ==
    IF ~b.ok THEN Raised
    ELSE Built([Blank EXCEPT
                  !.cls = "Command", !.id = CommandClass(first),
                  !.args = ComponentArgs(CommandParams(first), b.vals)])

\* The __init__ of a command class: every parameter is required.
Command_init(first, args, kwargs) ==
    Command_new(first, Bind(CommandParams(first), Len(CommandParams(first)), <<>>,
                            args, kwargs))

\* SYMBOLS
SYMBOLS == {<<"*">>, <<"@">>, <<">">>, <<"$">>}

-----------------------------------------------------------------------------
(* Routine: compile and link. *)

\* c(*args, **kwargs) for the class c that first names in SYMBOLS or in the
\* command book; a first token in neither builds nothing.
Construct(first, sep, labs) ==
    CASE first = <<"*">> -> Point_init(sep.args, sep.kwargs)
      [] first = <<"@">> -> Label_init(sep.args, sep.kwargs, labs)
      [] first = <<">">> -> Jump_init(sep.args, sep.kwargs)
      [] first = <<"$">> -> Setting_init(sep.args, sep.kwargs)
      [] first \in CommandBook -> Command_init(first, sep.args, sep.kwargs)
      [] OTHER -> Raised

\* An _eval that gives a Label the number of its row as index.
Evaluated_ByRow(made, i, len, labs, id) ==
    IF ~made.ok THEN [ok |-> FALSE, obj |-> Blank, labels |-> labs]
    ELSE IF made.obj.cls = "Label"
    THEN [ok     |-> TRUE,
          obj    |-> [made.obj EXCEPT !.row = i, !.index = i - 1],
          labels |-> [n \in DOMAIN labs \cup {made.obj.label} |->
                        IF n = made.obj.label THEN id ELSE labs[n]]]
    ELSE [ok |-> TRUE, obj |-> [made.obj EXCEPT !.row = i], labels |-> labs]

\* The try block of Routine._eval on the constructor's outcome: a Label gets
\* its index and its entry in Routine.labels.
Evaluated(made, i, len, labs, id) ==
    IF ~made.ok THEN [ok |-> FALSE, obj |-> Blank, labels |-> labs]
    ELSE IF made.obj.cls = "Label"
    THEN [ok     |-> TRUE,
          obj    |-> [made.obj EXCEPT !.row = i, !.index = len],
          labels |-> [n \in DOMAIN labs \cup {made.obj.label} |->
                        IF n = made.obj.label THEN id ELSE labs[n]]]
    ELSE [ok |-> TRUE, obj |-> [made.obj EXCEPT !.row = i], labels |-> labs]

\* Routine._eval(row, i) with len(self) = len and Routine.labels = labs: the
\* object built (ok = FALSE for None) and Routine.labels afterwards.  id is
\* the identity the new object gets.
Routine_eval(row, i, len, labs, id) ==
    IF row = <<>> THEN [ok |-> FALSE, obj |-> Blank, labels |-> labs]
    ELSE Evaluated(Construct(Lower(row[1]), separate_args(Tail(row)), labs),
                   i, len, labs, id)

\* No object: the heap and the label table of an empty Routine.
Empty == [n \in {} |-> 0]

\* The identity of a new object: one no live object has.
NewId(h) == IF DOMAIN h = {} THEN 1
            ELSE 1 + CHOOSE i \in DOMAIN h : \A j \in DOMAIN h : j <= i

RECURSIVE Reach(_, _)
\* The objects reachable from the objects ids: a Jump refers to its link, a
\* Label to its links.
Reach(h, ids) ==
    LET more == ids \cup {h[i].link : i \in {j \in ids : h[j].link # NoLink}}
                    \cup UNION {h[i].links : i \in ids}
    IN IF more = ids THEN ids ELSE Reach(h, more)

\* The heap without the objects neither the sequence nor the label table
\* reaches: what Python's reference counting keeps.
Live(h, seq, labs) ==
    LET keep == Reach(h, {seq[k] : k \in 1..Len(seq)} \cup {labs[n] : n \in DOMAIN labs})
    IN [i \in keep |-> h[i]]

\* Routine.append(p)
Routine_append(seq, p) == Append(seq, p)

\* A compile whose current Point stays the first Point of the file.
Compiled_FirstPoint(st, r, line, id) ==
    IF ~r.ok THEN st
    ELSE IF r.obj.cls = "Command"
    THEN IF st.curr_point # 0
         THEN [st EXCEPT !.heap[st.curr_point].commands = Append(@, r.obj)]
         ELSE st
    ELSE [sequence   |-> Routine_append(st.sequence, id),
          heap       |-> (id :> r.obj) @@ st.heap,
          labels     |-> r.labels,
          curr_point |-> IF r.obj.cls = "Point" /\ st.curr_point = 0
                         THEN id ELSE st.curr_point]

\* The body of the loop of Routine.compile on the outcome r of _eval for
\* row number line: a command goes to the current Point, if any, and any
\* other object to the sequence.
Compiled(st, r, line, id) ==
    IF ~r.ok THEN st
    ELSE IF r.obj.cls = "Command"
    THEN IF st.curr_point # 0
         THEN [st EXCEPT !.heap[st.curr_point].commands = Append(@, r.obj)]
         ELSE st
    ELSE [sequence   |-> Routine_append(st.sequence, id),
          heap       |-> (id :> r.obj) @@ st.heap,
          labels     |-> r.labels,
          curr_point |-> IF r.obj.cls = "Point" THEN id ELSE st.curr_point]

RECURSIVE CompileRows_Stop(_, _, _)
\* A compile that gives up at the first row that builds nothing: r is the
\* outcome of _eval for row number line.
Stopped(rows, line, st, r) ==
    IF ~r.ok THEN st
    ELSE CompileRows_Stop(rows, line + 1, Compiled(st, r, line, NewId(st.heap)))

CompileRows_Stop(rows, line, st) ==
    IF line > Len(rows) THEN st
    ELSE Stopped(rows, line, st,
                 Routine_eval(rows[line], line, Len(st.sequence), st.labels,
                              NewId(st.heap)))

RECURSIVE CompileRows(_, _, _)
\* The loop of Routine.compile over the rows from row number line on.  st
\* holds sequence, heap, labels and curr_point (0 for None).
CompileRows(rows, line, st) ==
    IF line > Len(rows) THEN st
    ELSE CompileRows(rows, line + 1,
             Compiled(st,
                      Routine_eval(rows[line], line, Len(st.sequence), st.labels,
                                   NewId(st.heap)),
                      line, NewId(st.heap)))

\* A compile that adds to the Routine.labels it finds.
Routine_compile_Additive(text, seq, labs, h) ==
    CompileRows(CsvRows(text), 1,
                [sequence |-> seq, heap |-> Live(h, seq, labs), labels |-> labs,
                 curr_point |-> 0])

\* Routine.compile(file), called with sequence seq, Routine.labels labs and
\* heap h: Routine.labels is reset, then every row of the file is evaluated.
Routine_compile(text, seq, labs, h) ==
    CompileRows(CsvRows(text), 1,
                [sequence |-> seq, heap |-> Live(h, seq, Empty), labels |-> Empty,
                 curr_point |-> 0])

\* A bind that sets the link and leaves the Label's links alone.
Jump_bind_OneWay(h, labs, j) ==
    IF h[j].label \in DOMAIN labs
    THEN [h EXCEPT ![j].link = labs[h[j].label]]
    ELSE h

\* Jump.bind() of the Jump with id j: the heap afterwards.
Jump_bind(h, labs, j) ==
    IF h[j].label \in DOMAIN labs
    THEN LET l == labs[h[j].label]
         IN [h EXCEPT ![j].link = l, ![l].links = @ \cup {j}]
    ELSE h

RECURSIVE BindAll(_, _, _, _)
\* The linking loop of Routine.load: bind() on every Jump of the sequence,
\* from position k on.
BindAll(seq, h, labs, k) ==
    IF k > Len(seq) THEN h
    ELSE BindAll(seq,
                 IF h[seq[k]].cls = "Jump" THEN Jump_bind(h, labs, seq[k]) ELSE h,
                 labs, k + 1)

\* Routine.set(arr)
Routine_set(arr) == arr

\* The linking pass of Routine.load over what compile left.
Linked(c) ==
    [sequence |-> c.sequence,
     labels   |-> c.labels,
     heap     |-> BindAll(c.sequence, c.heap, c.labels, 1)]

\* Routine.load(file) past its checks: the sequence is emptied, the file is
\* compiled and every Jump is bound.
CompileAndLink(text, labs, h) ==
    Linked(Routine_compile(text, Routine_set(<<>>), labs, h))

-----------------------------------------------------------------------------
(* Routine: save. *)

\* Component.encode(): the id, then key=value for every captured argument
\* (all of them strings here, so primitive), joined by ', '.
Component_encode(o) ==
    Join(<<COMMA, SP>>,
         <<(<<o.id>>)>> \o [k \in 1..Len(o.args) |->
                              <<o.args[k][1]>> \o <<EQ>> \o o.args[k][2]])

\* Label.encode(): a newline before the encoding.
Label_encode(o) == <<NL>> \o Component_encode(o)

encode(o) == IF o.cls = "Label" THEN Label_encode(o) ELSE Component_encode(o)

\* The lines Routine.save collects for one item of the sequence: its encoding
\* and, for a Point, each command's encoding after four spaces.
ItemLines(o) ==
    <<encode(o)>> \o
    (IF o.cls = "Point"
     THEN [k \in 1..Len(o.commands) |->
             <<SP, SP, SP, SP>> \o encode(o.commands[k])]
     ELSE <<>>)

\* The text Routine.save writes: the lines and a last empty one, joined by
\* newlines.
Routine_save(seq, h) ==
    Join(<<NL>>,
         Concat([k \in 1..Len(seq) |-> ItemLines(h[seq[k]])]) \o <<(<<>>)>>)

-----------------------------------------------------------------------------
(* Execution. *)

\* The step was no execute().  todo holds the calls a main() that has begun
\* has still to make; it is empty where main() is one step.
NotRun == [obj |-> 0, effects |-> <<>>, diag |-> FALSE, todo |-> <<>>]

\* Component.execute() and every method behind utils.run_if_enabled: the call
\* happens when the flag is on and is dropped otherwise.
run_if_enabled(en, then, else) == IF en THEN then ELSE else

\* A counter that wraps one execution late.
Point_increment_counter_Late(o, en) ==
    run_if_enabled(en, [o EXCEPT !.counter = (o.counter + 1) % (o.frequency + 1)], o)

\* Point._increment_counter(), behind utils.run_if_enabled.
Point_increment_counter(o, en) ==
    run_if_enabled(en, [o EXCEPT !.counter = (o.counter + 1) % o.frequency], o)

\* The commands Point.main() executes: with counter 0 the move, the adjust
\* when the flag is set and every command in order; each is a Command's
\* execute(), behind utils.run_if_enabled.
Point_effects(o, en) ==
    IF o.counter = 0
    THEN run_if_enabled(en,
            <<"Move">> \o (IF o.adjust THEN <<"Adjust">> ELSE <<>>)
            \o [k \in 1..Len(o.commands) |-> o.commands[k].id],
            <<>>)
    ELSE <<>>

\* Point.main(): the Point afterwards.
Point_main(o, en) == Point_increment_counter(o, en)

\* A Jump counter that wraps one execution late.
Jump_increment_counter_Late(o, en) ==
    run_if_enabled(en, [o EXCEPT !.counter = (o.counter + 1) % (o.frequency + 1)], o)

\* Jump._increment_counter(), behind utils.run_if_enabled.
Jump_increment_counter(o, en) ==
    run_if_enabled(en, [o EXCEPT !.counter = (o.counter + 1) % o.frequency], o)

\* A Jump that transfers on every execution, whatever its counter.
Jump_target_Always(o, h, pc) ==
    IF o.link # NoLink THEN h[o.link].index ELSE pc

\* A Jump that steps over the next instruction when it has no Label.
Jump_target_StepOver(o, h, pc) ==
    IF o.counter # 0 THEN pc
    ELSE IF o.link # NoLink THEN h[o.link].index ELSE pc + 1

\* A Jump that transfers to the position after its Label.
Jump_target_PastLabel(o, h, pc) ==
    IF o.link # NoLink /\ o.counter = 0 THEN h[o.link].index + 1 ELSE pc

\* Routine.index after Jump.main() of Jump o.
Jump_target(o, h, pc) ==
    IF o.link # NoLink /\ o.counter = 0 THEN h[o.link].index ELSE pc

\* A Jump that advances its counter on its firing executions only.
Jump_main_FiringOnly(o, en) ==
    IF o.link = NoLink \/ o.counter # 0 THEN o ELSE Jump_increment_counter(o, en)

\* Jump.main(): the Jump afterwards.  An unbound Jump only prints.
Jump_main(o, en) ==
    IF o.link = NoLink THEN o ELSE Jump_increment_counter(o, en)

\* An execute() that calls main() without asking for the flag.
ExecuteEffect_Ungated(k) ==
    LET i == sequence[k]
        o == heap[i]
        quiet == [obj |-> i, effects |-> <<>>, diag |-> FALSE, todo |-> <<>>]
    IN /\ CASE o.cls = "Point" ->
                 /\ heap' = [heap EXCEPT ![i] = Point_main(o, enabled)]
                 /\ ran' = [quiet EXCEPT !.effects = Point_effects(o, enabled)]
                 /\ UNCHANGED <<index, setting>>
            [] o.cls = "Jump" ->
                 /\ heap' = [heap EXCEPT ![i] = Jump_main(o, enabled)]
                 /\ index' = Jump_target(o, heap, index)
                 /\ ran' = [quiet EXCEPT !.diag = (o.link = NoLink)]
                 /\ UNCHANGED setting
            [] o.cls = "Setting" ->
                 /\ setting' = o.value
                 /\ ran' = quiet
                 /\ UNCHANGED <<heap, index>>
            [] OTHER ->
                 /\ ran' = quiet
                 /\ UNCHANGED <<heap, index, setting>>
       /\ ret' = "none"
       /\ UNCHANGED <<path, sequence, labels, enabled, disk>>

\* Component.execute() of sequence[k]: main() of the object's class, behind
\* utils.run_if_enabled.
ExecuteEffect(k) ==
    LET i == sequence[k]
        o == heap[i]
        quiet == [obj |-> i, effects |-> <<>>, diag |-> FALSE, todo |-> <<>>]
    IN /\ IF ~enabled
          THEN /\ UNCHANGED <<heap, index, setting>>
               /\ ran' = quiet
          ELSE CASE o.cls = "Point" ->
                      /\ heap' = [heap EXCEPT ![i] = Point_main(o, enabled)]
                      /\ ran' = [quiet EXCEPT !.effects = Point_effects(o, enabled)]
                      /\ UNCHANGED <<index, setting>>
                 [] o.cls = "Jump" ->
                      /\ heap' = [heap EXCEPT ![i] = Jump_main(o, enabled)]
                      /\ index' = Jump_target(o, heap, index)
                      /\ ran' = [quiet EXCEPT !.diag = (o.link = NoLink)]
                      /\ UNCHANGED setting
                 [] o.cls = "Setting" ->
                      /\ setting' = o.value
                      /\ ran' = quiet
                      /\ UNCHANGED <<heap, index>>
                 [] OTHER ->
                      /\ ran' = quiet
                      /\ UNCHANGED <<heap, index, setting>>
       /\ ret' = "none"
       /\ UNCHANGED <<path, sequence, labels, enabled, disk>>

\* execute() of one Component of the sequence, by the stepper.
Execute(k) == ExecuteEffect(k) /\ UNCHANGED calls

\* The executions of object i that the history holds.
Calls(i) == IF i \in DOMAIN calls THEN calls[i] ELSE <<>>

\* execute() of one Component; the effects of the execution of a Point are
\* added to its history when the flag is on.
CountedExecute(k) ==
    LET i == sequence[k]
    IN /\ Len(Calls(i)) < MaxCalls
       /\ ExecuteEffect(k)
       /\ calls' = IF enabled /\ heap[i].cls = "Point"
                   THEN [j \in DOMAIN calls \cup {i} |->
                           IF j = i THEN Append(Calls(i), ran'.effects) ELSE calls[j]]
                   ELSE calls

\* The enable flag's provider turns it on or off.
Toggle ==
    /\ enabled' = ~enabled
    /\ ret' = "none"
    /\ ran' = NotRun
    /\ UNCHANGED <<path, sequence, labels, index, heap, setting, disk, calls>>

\* The calls Point.main() makes, in order: with counter 0 the execute() of
\* the move, of the adjust when the flag is set and of every command, then
\* _increment_counter().
Point_calls(o) ==
    (IF o.counter = 0
     THEN <<"Move">> \o (IF o.adjust THEN <<"Adjust">> ELSE <<>>)
          \o [k \in 1..Len(o.commands) |-> o.commands[k].id]
     ELSE <<>>) \o <<"count">>

\* A command's execute() that does not ask for the flag.
Command_execute_Ungated(r, c, en) == [r EXCEPT !.effects = Append(@, c)]

\* Component.execute() of command c inside a main(), behind
\* utils.run_if_enabled: r is the record of the execution.
Command_execute(r, c, en) ==
    run_if_enabled(en, [r EXCEPT !.effects = Append(@, c)], r)

\* No main() is under way.
Idle == ran.todo = <<>>

\* Component.execute() of sequence[k] up to the first call main() makes
\* behind utils.run_if_enabled: the flag is asked for, a Point works out its
\* calls, a Jump prints or transfers, a Setting is applied.
Begin(k) ==
    LET i == sequence[k]
        o == heap[i]
        quiet == [obj |-> i, effects |-> <<>>, diag |-> FALSE, todo |-> <<>>]
    IN /\ Idle
       /\ IF ~enabled
          THEN /\ UNCHANGED <<index, setting>>
               /\ ran' = quiet
          ELSE CASE o.cls = "Point" ->
                      /\ ran' = [quiet EXCEPT !.todo = Point_calls(o)]
                      /\ UNCHANGED <<index, setting>>
                 [] o.cls = "Jump" ->
                      /\ index' = Jump_target(o, heap, index)
                      /\ ran' = [quiet EXCEPT
                                   !.diag = (o.link = NoLink),
                                   !.todo = IF o.link = NoLink THEN <<>>
                                            ELSE <<"count">>]
                      /\ UNCHANGED setting
                 [] o.cls = "Setting" ->
                      /\ setting' = o.value
                      /\ ran' = quiet
                      /\ UNCHANGED index
                 [] OTHER ->
                      /\ ran' = quiet
                      /\ UNCHANGED <<index, setting>>
       /\ ret' = "none"
       /\ UNCHANGED <<path, sequence, labels, heap, enabled, disk, calls>>

\* The next call of the main() under way: a command's execute() or
\* _increment_counter(), each behind utils.run_if_enabled.
Step ==
    /\ ~Idle
    /\ IF Head(ran.todo) = "count"
       THEN /\ heap' = [heap EXCEPT ![ran.obj] =
                          IF @.cls = "Point"
                          THEN Point_increment_counter(@, enabled)
                          ELSE Jump_increment_counter(@, enabled)]
            /\ ran' = [ran EXCEPT !.todo = Tail(@)]
       ELSE /\ ran' = Command_execute([ran EXCEPT !.todo = Tail(@)],
                                      Head(ran.todo), enabled)
            /\ heap' = heap
    /\ UNCHANGED <<path, sequence, labels, index, enabled, setting, disk, ret, calls>>

\* The enable flag's provider turns it on or off, between executions or
\* between two calls of a main() under way.
Switch ==
    /\ enabled' = ~enabled
    /\ UNCHANGED <<path, sequence, labels, index, heap, setting, disk, ret, ran, calls>>

\* Label.set_index(i)
Label_set_index(o, i) == [o EXCEPT !.index = i]

\* An editor of the routine moves Label l to position i.
Relocate(l, i) ==
    /\ l \in DOMAIN heap
    /\ heap[l].cls = "Label"
    /\ heap' = [heap EXCEPT ![l] = Label_set_index(heap[l], i)]
    /\ ret' = "none"
    /\ ran' = NotRun
    /\ UNCHANGED <<path, sequence, labels, index, enabled, setting, disk, calls>>

-----------------------------------------------------------------------------
(* Removal of Components. *)

\* A removal that leaves the Label's links as they are.
Jump_delete_Forgetful(h, j) == h

\* Jump.__delete__() of the Jump with id j: the heap afterwards.  The link
\* itself stays.
Jump_delete(h, j) ==
    IF h[j].link # NoLink
    THEN [h EXCEPT ![h[j].link].links = @ \ {j}]
    ELSE h

\* A sequence without its k-th item.
Without(seq, k) ==
    [m \in 1..(Len(seq) - 1) |-> IF m < k THEN seq[m] ELSE seq[m + 1]]

\* An editor removes the Jump at position k: its __delete__ runs (set.remove
\* raises KeyError for a Jump its Label does not list) and it leaves the
\* sequence.
DeleteJump(k) ==
    /\ heap[sequence[k]].cls = "Jump"
    /\ IF /\ heap[sequence[k]].link # NoLink
          /\ sequence[k] \notin heap[heap[sequence[k]].link].links
       THEN /\ ret' = "raised"
            /\ UNCHANGED <<sequence, heap>>
       ELSE /\ ret' = "none"
            /\ sequence' = Without(sequence, k)
            /\ heap' = Live(Jump_delete(heap, sequence[k]), Without(sequence, k), labels)
    /\ ran' = NotRun
    /\ UNCHANGED <<path, labels, index, enabled, setting, disk, calls>>

\* Label.__delete__() of the Label with id l, first statement: del
\* self.links.  The Label holds no reference to a Jump any more; the Jumps
\* are not touched.
Label_delete(h, l) == [h EXCEPT ![l].links = {}]

\* Label.__delete__(), second statement: Routine.labels.pop(self.label).
Labels_pop(labs, n) == [m \in DOMAIN labs \ {n} |-> labs[m]]

\* An editor removes the Label at position k: its __delete__ runs and it
\* leaves the sequence.  A Jump linked to it keeps the object alive.
DeleteLabel(k) ==
    /\ heap[sequence[k]].cls = "Label"
    /\ heap[sequence[k]].label \in DOMAIN labels
    /\ sequence' = Without(sequence, k)
    /\ labels' = Labels_pop(labels, heap[sequence[k]].label)
    /\ heap' = Live(Label_delete(heap, sequence[k]), Without(sequence, k),
                    Labels_pop(labels, heap[sequence[k]].label))
    /\ ret' = "none"
    /\ ran' = NotRun
    /\ UNCHANGED <<path, index, enabled, setting, disk, calls>>

-----------------------------------------------------------------------------
(* Routine: load and save as operations. *)

\* load() without an argument: file is None.
NoFile == "None"

\* splitext(file)[1]
Ext(file) == IF file \in {"routine.csv", "saved.csv"} THEN ".csv" ELSE ".txt"

\* utils.reset_settings(): the store's default.
DefaultSetting == 0

\* Where Routine.save writes.
SavedFile == "saved.csv"

\* What load(file) calls: None, the empty string or a file on disk.
LoadArgs == {NoFile, "", "routine.csv", "saved.csv", "notes.txt"}

\* The file load(file) reads: the cached path when file is empty.
FileOf(file, p) == IF file = "" THEN p ELSE file

\* The end of Routine.load(f): c is what compiling and linking gave.
Loaded(f, c) ==
    /\ ret' = "true"
    /\ path' = f
    /\ index' = 0
    /\ setting' = DefaultSetting
    /\ calls' = Empty
    /\ sequence' = c.sequence
    /\ labels' = c.labels
    /\ heap' = Live(c.heap, c.sequence, c.labels)

\* load without a file and without a cached path: False is returned.
NoPath ==
    /\ ret' = "false"
    /\ UNCHANGED <<path, sequence, labels, index, heap, setting, calls>>

\* A load that empties the Routine before it looks at the extension.
Unsupported_Late ==
    /\ ret' = "false"
    /\ sequence' = Routine_set(<<>>)
    /\ index' = 0
    /\ UNCHANGED <<path, labels, heap, setting, calls>>

\* load of a file whose extension is not '.csv': False is returned.
Unsupported ==
    /\ ret' = "false"
    /\ UNCHANGED <<path, sequence, labels, index, heap, setting, calls>>

\* Routine.load(file).  ret is "raised" when the call ends in an exception,
\* else what it returns.
Load(file) ==
    /\ file \in {NoFile, ""} \cup DOMAIN disk
    /\ IF file = NoFile
       THEN \* basename(None) raises TypeError
            /\ ret' = "raised"
            /\ UNCHANGED <<path, sequence, labels, index, heap, setting, calls>>
       ELSE IF file = "" /\ path = ""
       THEN NoPath
       ELSE IF Ext(FileOf(file, path)) # ".csv"
       THEN Unsupported
       ELSE Loaded(FileOf(file, path),
                   CompileAndLink(disk[FileOf(file, path)], labels, heap))
    /\ ran' = NotRun
    /\ UNCHANGED <<enabled, disk>>

\* Routine.save(file_path) of a loaded routine.
Save ==
    /\ path # ""
    /\ disk' = [f \in DOMAIN disk \cup {SavedFile} |->
                  IF f = SavedFile THEN Routine_save(sequence, heap) ELSE disk[f]]
    /\ ret' = "none"
    /\ ran' = NotRun
    /\ UNCHANGED <<path, sequence, labels, index, heap, enabled, setting, calls>>

-----------------------------------------------------------------------------
(* Source files. *)

\* A source line: its fields separated by a comma and a space.
Line(fields) == Join(<<COMMA, SP>>, fields)

\* A field in double quotes.
Quoted(s) == <<QUOTE>> \o s \o <<QUOTE>>

\* A text: its lines, each ended by a newline.
Text(ls) == Concat([k \in 1..Len(ls) |-> ls[k] \o <<NL>>])

\* The rows the generated sources are made of: a Point, a Label, a Jump, a
\* command, and a Setting of a key that does not exist.
RowPool ==
    { Line(<<(<<"*">>), (<<"1">>), (<<"2">>)>>),
      Line(<<(<<"@">>), (<<"a">>)>>),
      Line(<<(<<">">>), (<<"a">>)>>),
      <<SP, SP, SP, SP, "buff">>,
      Line(<<(<<"$">>), (<<"unknownKey">>), (<<"3">>)>>) }

RECURSIVE Files(_)
\* The texts of exactly n rows of the pool.
Files(n) ==
    IF n = 0 THEN {<<>>}
    ELSE {r \o <<NL>> \o f : r \in RowPool, f \in Files(n - 1)}

\* The scenario: a Point, the Label start, a Jump to it and another Point.
StartFile ==
    Text(<< Line(<<(<<"*">>), (<<"100">>), (<<"200">>)>>),
            Line(<<(<<"@">>), (<<"start">>)>>),
            Line(<<(<<">">>), (<<"start">>)>>),
            Line(<<(<<"*">>), (<<"300">>), (<<"400">>)>>) >>)

\* Rows that fail each in its own way (an unknown token, a missing argument,
\* a frequency of 0, an unknown keyword) around rows that do not; and a
\* Setting, a command with an argument, an empty row, a Jump without a Label
\* and a Jump before its Label; and a Label whose name holds a comma, with
\* a Jump to it.
OddFiles ==
    { Text(<< <<"zz">>,
              Line(<<(<<"*">>), (<<"1">>)>>),
              Line(<<(<<"*">>), (<<"1">>), (<<"2">>), (<<"0">>)>>),
              Line(<<(<<"@">>), (<<"a">>)>>),
              Line(<<(<<">">>), (<<"a">>), (<<"colour", EQ, "2">>)>>),
              Line(<<(<<">">>), (<<"a">>), (<<"skip", EQ, "True">>)>>) >>),
      Text(<< Line(<<(<<"$">>), (<<"move_tolerance">>), (<<"2">>)>>),
              Line(<<(<<"*">>), (<<"1">>), (<<"2">>), (<<"2">>)>>),
              Line(<<(<<"Walk">>), (<<"left">>)>>),
              <<>>,
              <<"BUFF">>,
              Line(<<(<<">">>), (<<"a">>), (<<"2">>)>>),
              Line(<<(<<">">>), (<<"b">>)>>),
              Line(<<(<<"@">>), (<<"b">>)>>) >>),
      Text(<< Line(<<(<<"@">>), Quoted(<<"a", COMMA, "b">>)>>),
              Line(<<(<<"*">>), (<<"1">>), (<<"2">>)>>),
              Line(<<(<<">">>), Quoted(<<"a", COMMA, "b">>)>>) >>) }

\* The atom of a small number.
Digit(n) == CASE n = 0 -> "0" [] n = 1 -> "1" [] n = 2 -> "2" [] n = 3 -> "3" [] OTHER -> "4"

\* A keyword field.
Kw(k, v) == <<k, EQ>> \o v

\* Sources whose Point and Jump have frequency n and skip s: one with a Point
\* that adjusts and has two commands, a Label and a Jump bound to it, and one
\* with a Jump to a Label that does not exist.
PeriodicFiles(n, s) ==
    { Text(<< Line(<<(<<"*">>), (<<"1">>), (<<"2">>), Kw("frequency", <<Digit(n)>>),
                     Kw("skip", <<s>>), Kw("adjust", <<"True">>)>>),
              <<SP, SP, SP, SP, "buff">>,
              <<SP, SP, SP, SP>> \o Line(<<(<<"walk">>), (<<"left">>)>>),
              Line(<<(<<"@">>), (<<"a">>)>>),
              Line(<<(<<">">>), (<<"a">>), (<<Digit(n)>>), (<<s>>)>>) >>),
      Text(<< Line(<<(<<">">>), (<<"b">>), (<<Digit(n)>>), (<<s>>)>>),
              Line(<<(<<"@">>), (<<"a">>)>>) >>) }

PeriodicSources ==
    UNION {PeriodicFiles(n, s) : n \in 1..MaxFreq, s \in {"True", "False"}}

Sources == UNION {Files(n) : n \in 1..MaxRows} \cup {StartFile} \cup OddFiles

-----------------------------------------------------------------------------
(* The Routine as a state machine. *)

\* A Routine after construction, with a source file on disk.
InitWith(srcs) ==
    /\ path = ""
    /\ sequence = <<>>
    /\ labels = Empty
    /\ index = 0
    /\ heap = Empty
    /\ enabled = FALSE
    /\ setting = DefaultSetting
    /\ \E src \in srcs :
          disk = [f \in {"routine.csv", "notes.txt"} |->
                    IF f = "routine.csv" THEN src ELSE <<"notes">>]
    /\ ret = "none"
    /\ ran = NotRun
    /\ calls = Empty

Init == InitWith(Sources)

Next ==
    \/ \E file \in LoadArgs : Load(file)
    \/ Save
    \/ \E k \in 1..Len(sequence) : Execute(k)
    \/ Toggle

Spec == Init /\ [][Next]_vars

\* The editor's view of Jumps: a source is loaded, its Components are
\* executed and Jumps are removed.
NextEdit ==
    \/ \E file \in LoadArgs : Load(file)
    \/ \E k \in 1..Len(sequence) : Execute(k)
    \/ Toggle
    \/ \E k \in 1..Len(sequence) : DeleteJump(k)

SpecEdit == Init /\ [][NextEdit]_vars

\* The editor's view of Labels: a source is loaded, its Components are
\* executed and Labels are removed.
NextUnlink ==
    \/ \E file \in LoadArgs : Load(file)
    \/ \E k \in 1..Len(sequence) : Execute(k)
    \/ Toggle
    \/ \E k \in 1..Len(sequence) : DeleteLabel(k)

SpecUnlink == Init /\ [][NextUnlink]_vars

\* The stepper's view: a periodic source is loaded, its Components are
\* executed with every execution recorded, and an editor moves Labels.
InitRun == InitWith(PeriodicSources)

NextRun ==
    \/ \E file \in LoadArgs : Load(file)
    \/ \E k \in 1..Len(sequence) : CountedExecute(k)
    \/ Toggle
    \/ \E l \in DOMAIN heap, i \in 0..(Len(sequence) - 1) : Relocate(l, i)

SpecRun == InitRun /\ [][NextRun]_vars

\* The flag provider's view: a periodic source is loaded, the main() of its
\* Components runs call by call, and the flag changes between any two calls.
NextSteps ==
    \/ \E file \in LoadArgs : Idle /\ Load(file)
    \/ \E k \in 1..Len(sequence) : Begin(k)
    \/ Step
    \/ Switch

SpecSteps == InitRun /\ [][NextSteps]_vars

-----------------------------------------------------------------------------
(* Periodic execution. *)

\* The skip argument a Point was constructed with.
Skips(o) == Boolean(o.args[4][2])

\* What a Point does when it fires: the move, the adjust if asked for, and
\* its commands in order.
Fires(o) ==
    <<"Move">> \o (IF o.adjust THEN <<"Adjust">> ELSE <<>>)
    \o [k \in 1..Len(o.commands) |-> o.commands[k].id]

\* C1: a Point with frequency N and skip false, executed with the flag on,
\* fires on the executions numbered 1, N+1, 2N+1, ... and does nothing on
\* every other one.
WaypointFiresEveryNth ==
    \A i \in DOMAIN heap :
       (heap[i].cls = "Point" /\ ~Skips(heap[i])) =>
          \A c \in 1..Len(Calls(i)) :
             Calls(i)[c] = IF (c - 1) % heap[i].frequency = 0
                           THEN Fires(heap[i]) ELSE <<>>

\* A Point with a frequency above 1 has fired a second time, on execution
\* N+1, after executions on which it did nothing.
WaypointFiredAgain ==
    \E i \in DOMAIN heap :
       /\ heap[i].cls = "Point" /\ ~Skips(heap[i])
       /\ heap[i].frequency > 1
       /\ Len(Calls(i)) > heap[i].frequency
       /\ Calls(i)[heap[i].frequency] = <<>>
       /\ Calls(i)[heap[i].frequency + 1] = <<"Move", "Adjust", "Buff", "Walk">>

\* C2: an enabled Jump bound to a Label sets Routine.index to the Label's
\* index of that moment when its counter is 0; with another counter it
\* leaves Routine.index alone and changes nothing but its own counter.
BoundJumpTransfers ==
    [][\A k \in 1..Len(sequence) :
          (/\ enabled
           /\ heap[sequence[k]].cls = "Jump"
           /\ heap[sequence[k]].link # NoLink
           /\ CountedExecute(k))
          => IF heap[sequence[k]].counter = 0
             THEN index' = heap[heap[sequence[k]].link].index
             ELSE /\ index' = index
                  /\ heap'[sequence[k]].counter # heap[sequence[k]].counter
                  /\ heap' = [heap EXCEPT ![sequence[k]].counter =
                                             heap'[sequence[k]].counter]
                  /\ UNCHANGED <<sequence, labels, setting, path>>]_vars

\* A bound Jump has just transferred to the index its Label was moved to,
\* which is not where the Label stands in the sequence.
JumpedToMovedLabel ==
    /\ enabled
    /\ ran.obj \in DOMAIN heap
    /\ heap[ran.obj].cls = "Jump"
    /\ heap[ran.obj].link # NoLink
    /\ index = heap[heap[ran.obj].link].index
    /\ index # 0
    /\ sequence[index + 1] # heap[ran.obj].link

\* C3: a Jump whose name is not in the label table has no link, and its
\* execution never changes Routine.index or anything else: with the flag on
\* it prints the diagnostic, and that is all.
UnboundJumpStays ==
    [][\A k \in 1..Len(sequence) :
          (/\ heap[sequence[k]].cls = "Jump"
           /\ heap[sequence[k]].label \notin DOMAIN labels
           /\ CountedExecute(k))
          => /\ heap[sequence[k]].link = NoLink
             /\ index' = index
             /\ heap' = heap
             /\ ran'.effects = <<>>
             /\ ran'.diag = enabled
             /\ UNCHANGED <<sequence, labels, setting, path>>]_vars

\* A Jump without a Label, of a frequency above 1, has just run with the
\* flag on and printed the diagnostic.
UnboundJumpRan ==
    /\ enabled
    /\ ran.obj \in DOMAIN heap
    /\ heap[ran.obj].cls = "Jump"
    /\ heap[ran.obj].link = NoLink
    /\ heap[ran.obj].frequency > 1
    /\ ran.diag

-----------------------------------------------------------------------------
(* Loading. *)

\* The Labels of the sequence that carry name n.
LabelsNamed(n) ==
    {sequence[m] : m \in {q \in 1..Len(sequence) :
                            /\ heap[sequence[q]].cls = "Label"
                            /\ heap[sequence[q]].label = n}}

\* Every Jump of the sequence is bound to the Label of its name, which lists
\* it, or has no link when no Label has the name.
JumpsLinked ==
    \A k \in 1..Len(sequence) :
       heap[sequence[k]].cls = "Jump" =>
          IF LabelsNamed(heap[sequence[k]].label) = {}
          THEN heap[sequence[k]].link = NoLink
          ELSE /\ heap[sequence[k]].link \in LabelsNamed(heap[sequence[k]].label)
               /\ sequence[k] \in heap[heap[sequence[k]].link].links

\* C4: a load of a '.csv' file succeeds, and after it every Jump whose name
\* is that of a Label of the sequence is bound to it both ways, wherever the
\* Label's row stands, and every other Jump has no link.
LoadBindsJumps ==
    [][/\ ret' = "true" => JumpsLinked'
       /\ \A file \in LoadArgs \ {NoFile} :
             (ret' # "true" /\ Ext(FileOf(file, path)) = ".csv") => ~Load(file)]_vars

\* A load has bound a Jump to a Label whose row comes after the Jump's, and
\* left another Jump of the same sequence without a link.
ForwardJumpBound ==
    /\ ret = "true"
    /\ \E k, m \in 1..Len(sequence) :
          /\ k < m
          /\ heap[sequence[k]].cls = "Jump"
          /\ heap[sequence[k]].link = sequence[m]
          /\ sequence[k] \in heap[sequence[m]].links
    /\ \E k \in 1..Len(sequence) :
          /\ heap[sequence[k]].cls = "Jump"
          /\ heap[sequence[k]].link = NoLink

\* The object a row asks for when Routine.labels is empty.
RowMade(row) ==
    IF row = <<>> THEN Raised
    ELSE Construct(Lower(row[1]), separate_args(Tail(row)), Empty)

\* What every row of a file asks for.
RowsMade(rows) == [r \in 1..Len(rows) |-> RowMade(rows[r])]

\* The rows of the file the Routine was loaded from, each with what it asks
\* for.
SourceRows == RowsMade(CsvRows(disk[path]))

\* The rows that ask for a Label named n.
LabelRows(made, n) ==
    {r \in 1..Len(made) : /\ made[r].ok
                          /\ made[r].obj.cls = "Label"
                          /\ made[r].obj.label = n}

\* The names that two rows or more ask a Label for.
RepeatedNames(made) ==
    {n \in {made[r].obj.label : r \in 1..Len(made)} :
        Cardinality(LabelRows(made, n)) >= 2}

\* The first row of a set of rows.
FirstRow(rs) == CHOOSE r \in rs : \A q \in rs : r <= q

\* Of the rows that ask for a Label named n, the first one's Label is the
\* only Label of that name in the sequence, with the index it got and the
\* entry of the label table.
FirstLabelKept(made, n) ==
    /\ Cardinality(LabelsNamed(n)) = 1
    /\ \A l \in LabelsNamed(n) :
          /\ heap[l].row = FirstRow(LabelRows(made, n))
          /\ sequence[heap[l].index + 1] = l
          /\ n \in DOMAIN labels
          /\ labels[n] = l

\* Every repeated name has its first Label, and that one only.
FirstLabelsKept(made) == \A n \in RepeatedNames(made) : FirstLabelKept(made, n)

\* C5: when several Label rows of a file carry one name, the sequence holds
\* one Label of that name after the compile, that of the earliest row; the
\* label table maps the name to it and its index is the one it was given.
DuplicateLabelsRejected ==
    ret = "true" => FirstLabelsKept(SourceRows)

\* The file has two Label rows of one name and more than the one Label in
\* the sequence.
HasRepeatedName(made) == RepeatedNames(made) # {} /\ Len(sequence) >= 2

\* A file with two Label rows of one name and another instruction has been
\* loaded.
DuplicateLabelLoaded ==
    ret = "true" /\ HasRepeatedName(SourceRows)

\* Row r is accepted: it builds an instruction that is no command, and no
\* earlier row asks for a Label of the same name.
Accepted(made, r) ==
    /\ made[r].ok
    /\ made[r].obj.cls # "Command"
    /\ made[r].obj.cls = "Label"
       => r = FirstRow(LabelRows(made, made[r].obj.label))

\* The sequence holds, in the order of the rows, the instruction of every
\* accepted row and nothing else, and the label table the names of its
\* Labels.
AcceptedRowsOnly(made) ==
    /\ \A k \in 1..(Len(sequence) - 1) :
          heap[sequence[k]].row < heap[sequence[k + 1]].row
    /\ {heap[sequence[k]].row : k \in 1..Len(sequence)}
          = {r \in 1..Len(made) : Accepted(made, r)}
    /\ \A k \in 1..Len(sequence) :
          /\ heap[sequence[k]].cls = made[heap[sequence[k]].row].obj.cls
          /\ heap[sequence[k]].args = made[heap[sequence[k]].row].obj.args
    /\ DOMAIN labels = {heap[sequence[k]].label :
                          k \in {q \in 1..Len(sequence) :
                                   heap[sequence[q]].cls = "Label"}}

\* C6: a row that fails is skipped and the compile goes on: after it the
\* sequence is the instructions, commands aside, of the rows that could be
\* constructed, in the order of the rows.
FailedRowsSkipped ==
    ret = "true" => AcceptedRowsOnly(SourceRows)

\* Four rows of the file fail and the rows 4 and 6, after failures, are the
\* sequence.
FourRowsFailed(made) ==
    /\ Len(sequence) = 2
    /\ Cardinality({r \in 1..Len(made) : ~made[r].ok}) = 4
    /\ heap[sequence[1]].row = 4
    /\ heap[sequence[2]].row = 6

\* A file of which four rows fail, each in its own way, has been loaded and
\* the two rows after the first failures are in the sequence.
FailingRowsLoaded ==
    ret = "true" /\ FourRowsFailed(SourceRows)

\* The label table is the Labels of the sequence, each under its name.
LabelsOfSequence ==
    /\ \A n \in DOMAIN labels : labels[n] \in LabelsNamed(n)
    /\ \A k \in 1..Len(sequence) :
          heap[sequence[k]].cls = "Label" => heap[sequence[k]].label \in DOMAIN labels

\* The Routine holds what a Routine that never loaded anything gets from
\* the text: c is that Routine after its load.
AsFresh(c) ==
    /\ sequence = c.sequence
    /\ labels = c.labels
    /\ heap = c.heap

\* C7: after a successful load, a first one or one over a loaded program,
\* Routine.index is 0, the sequence is what the new file alone compiles to
\* and the label table is the Labels of the new sequence, each under its
\* name.
LoadStartsAfresh ==
    ret = "true" =>
       /\ index = 0
       /\ LabelsOfSequence
       /\ AsFresh(CompileAndLink(disk[path], Empty, Empty))

\* The saved text of a loaded program with a Label has been loaded over the
\* program: the Label's name is defined again.
ReloadedWithLabel ==
    /\ ret = "true"
    /\ path = SavedFile
    /\ labels # Empty

\* C8: a load of a file whose extension is not '.csv' returns False and
\* leaves the sequence, the label table, Routine.index and the path as they
\* were.
UnsupportedLoadKeepsProgram ==
    [][\A file \in LoadArgs \ {NoFile} :
          (Ext(FileOf(file, path)) # ".csv" /\ ~(file = "" /\ path = "") /\ Load(file))
          => (ret' = "false" /\ UNCHANGED <<sequence, labels, index, path, heap>>)]_vars

\* A load of a file that is no '.csv' has been refused with a program loaded.
UnsupportedRefused ==
    /\ ret = "false"
    /\ path # ""
    /\ sequence # <<>>
    /\ labels # Empty

\* C9: a load without a file, with no path of an earlier load, returns
\* False, raises nothing and leaves the sequence, the label table and
\* Routine.index alone.
MissingPathReturnsFalse ==
    [][(path = "" /\ Load(NoFile))
       => (ret' = "false" /\ UNCHANGED <<sequence, labels, index>>)]_vars

-----------------------------------------------------------------------------
(* Saving. *)

\* Where object i stands in the sequence, 0 if nowhere.
Position(seq, i) ==
    IF \E k \in 1..Len(seq) : seq[k] = i
    THEN CHOOSE k \in 1..Len(seq) : seq[k] = i
    ELSE 0

\* A program's structure: of every instruction in order its class, its
\* arguments, a Label's name and index, where a Jump's link stands, and a
\* Point's commands with their arguments.
Structure(seq, h) ==
    [k \in 1..Len(seq) |->
       [cls      |-> h[seq[k]].cls,
        args     |-> h[seq[k]].args,
        label    |-> h[seq[k]].label,
        index    |-> h[seq[k]].index,
        link     |-> Position(seq, h[seq[k]].link),
        links    |-> {Position(seq, j) : j \in h[seq[k]].links},
        commands |-> [c \in 1..Len(h[seq[k]].commands) |->
                        <<h[seq[k]].commands[c].id, h[seq[k]].commands[c].args>>]]]

\* C10: the load of the text a program was saved to gives a program of the
\* same structure: the same instructions in the same order, the same Label
\* names and indexes, the same bindings, arguments and commands.
SaveLoadRoundTrips ==
    [][(/\ ret' = "true"
        /\ path' = SavedFile
        /\ disk[SavedFile] = Routine_save(sequence, heap))
       => Structure(sequence', heap') = Structure(sequence, heap)]_vars

-----------------------------------------------------------------------------
(* The enable flag. *)

\* C11: with the flag off the execution of any Component changes nothing:
\* no command runs, no setting is written, Routine.index stays and no
\* counter advances.
DisabledExecutionIsInert ==
    [][\A k \in 1..Len(sequence) :
          (~enabled /\ Execute(k))
          => /\ UNCHANGED <<heap, index, setting, sequence, labels, path, disk>>
             /\ ran'.effects = <<>>
             /\ ~ran'.diag]_vars

\* With the flag off a bound Jump at counter 0 has been executed and
\* Routine.index is not its Label's index, and the Setting of the routine
\* has not been written.
DisabledJumpExecuted ==
    /\ ~enabled
    /\ ran.obj \in DOMAIN heap
    /\ heap[ran.obj].cls = "Jump"
    /\ heap[ran.obj].link # NoLink
    /\ heap[ran.obj].counter = 0
    /\ heap[heap[ran.obj].link].index # index
    /\ \E i \in DOMAIN heap : heap[i].cls = "Setting" /\ heap[i].value # setting

-----------------------------------------------------------------------------
(* Counters. *)

\* The objects that have a frequency and a counter.
Periodic == {i \in DOMAIN heap : heap[i].cls \in {"Point", "Jump"}}

\* The skip argument a Point or a Jump was constructed with.
SkipArg(o) == IF o.cls = "Point" THEN Skips(o) ELSE Boolean(o.args[3][2])

\* C12, as stated: every Point and every Jump has 0 <= counter < frequency
\* in every state, for every frequency and both values of skip.
CounterInRange ==
    \A i \in Periodic : 0 <= heap[i].counter /\ heap[i].counter < heap[i].frequency

\* C12, amended: every Point and every Jump has 0 <= counter < frequency,
\* but for one constructed with frequency 1 and skip true, whose counter is 1
\* until it is first advanced.
CounterInRangeOnceAdvanced ==
    \A i \in Periodic :
       \/ 0 <= heap[i].counter /\ heap[i].counter < heap[i].frequency
       \/ /\ heap[i].frequency = 1
          /\ SkipArg(heap[i])
          /\ heap[i].counter = 1
          /\ Calls(i) = <<>>

\* A Point of frequency 1 and skip true has been executed twice with the
\* flag on and its counter is 0, beside a Jump of the same arguments whose
\* counter is in its range too.
SkippedPointAdvanced ==
    \E i, j \in Periodic :
       /\ heap[i].cls = "Point" /\ heap[j].cls = "Jump"
       /\ heap[i].frequency = 1 /\ SkipArg(heap[i])
       /\ Len(Calls(i)) >= 2
       /\ heap[i].counter = 0
       /\ heap[j].frequency = 1 /\ SkipArg(heap[j])
       /\ heap[j].counter = 0

-----------------------------------------------------------------------------
(* Removal. *)

\* Every Jump with a link is in the links of the Label it is linked to.
JumpsListed ==
    \A j \in DOMAIN heap :
       (heap[j].cls = "Jump" /\ heap[j].link # NoLink)
       => j \in heap[heap[j].link].links

\* C13: through loads, binds and removals of Jumps, every Jump with a link
\* is in its Label's links, and a removed Jump is in no Label's links.
RemovedJumpUnlisted ==
    [][/\ JumpsListed'
       /\ \A k \in 1..Len(sequence) :
             DeleteJump(k)
             => \A l \in DOMAIN heap' :
                   heap'[l].cls = "Label" => sequence[k] \notin heap'[l].links]_vars

\* Of the two Jumps bound to the Label of a three-row file one has been
\* removed: the Label lists the other one only.
OneOfTwoJumpsRemoved ==
    /\ path # ""
    /\ Len(CsvRows(disk[path])) = 3
    /\ Len(sequence) = 2
    /\ \E l, j \in DOMAIN heap :
          /\ heap[l].cls = "Label" /\ heap[l].row = 2
          /\ heap[j].cls = "Jump" /\ heap[j].row \in {1, 3}
          /\ heap[l].links = {j}
          /\ heap[j].link = l
          /\ DOMAIN heap = {l, j}

\* C14: the removal of a Label unbinds every Jump of its links, which has
\* no link afterwards; the execution of a Jump whose Label is gone leaves
\* Routine.index alone and, with the flag on, prints the diagnostic.
LabelRemovalUnbinds ==
    [][\A k \in 1..Len(sequence) :
          /\ DeleteLabel(k)
             => \A j \in heap[sequence[k]].links :
                   j \in DOMAIN heap' => heap'[j].link = NoLink
          /\ (/\ heap[sequence[k]].cls = "Jump"
              /\ heap[sequence[k]].label \notin DOMAIN labels
              /\ Execute(k))
             => /\ index' = index
                /\ ran'.diag = enabled]_vars

-----------------------------------------------------------------------------
(* Label indexes. *)

\* Every Label of the sequence stands at its index (positions count from 0)
\* and under its name in the label table.
LabelsAtIndex ==
    \A k \in 1..Len(sequence) :
       heap[sequence[k]].cls = "Label"
       => /\ heap[sequence[k]].index = k - 1
          /\ heap[sequence[k]].label \in DOMAIN labels
          /\ labels[heap[sequence[k]].label] = sequence[k]

\* C15: after the compile every Label of the sequence stands at its index
\* and under its name in the label table, whatever rows come before it; the
\* four rows of the scenario give four instructions with Label start at
\* index 1.
LabelIndexIsPosition ==
    ret = "true" =>
       /\ LabelsAtIndex
       /\ disk[path] = StartFile
          => /\ Len(sequence) = 4
             /\ <<"start">> \in DOMAIN labels
             /\ heap[labels[<<"start">>]].index = 1

\* A file has been loaded in which three rows or more that add nothing to
\* the sequence (commands, empty or failed rows) come before a Label.
LabelAfterSkippedRows ==
    /\ ret = "true"
    /\ \E k \in 1..Len(sequence) :
          /\ heap[sequence[k]].cls = "Label"
          /\ heap[sequence[k]].row - k >= 3
          /\ heap[sequence[k]].index = k - 1

-----------------------------------------------------------------------------
(* The counter of a Jump. *)

\* C16, as stated: every execution of a Jump with the flag on takes its
\* counter to (counter + 1) mod frequency, whether it fired or not and
\* whether the Jump has a link or none.
JumpCounterAlwaysAdvances ==
    [][\A k \in 1..Len(sequence) :
          (/\ enabled
           /\ heap[sequence[k]].cls = "Jump"
           /\ CountedExecute(k))
          => heap'[sequence[k]].counter
                = (heap[sequence[k]].counter + 1) % heap[sequence[k]].frequency]_vars

\* C16, amended: every execution with the flag on of a Jump that has a link
\* takes its counter to (counter + 1) mod frequency, whether it fired or
\* not; an execution of a Jump without a link leaves its counter as it is.
BoundJumpCounterAdvances ==
    [][\A k \in 1..Len(sequence) :
          (/\ enabled
           /\ heap[sequence[k]].cls = "Jump"
           /\ CountedExecute(k))
          => heap'[sequence[k]].counter
                = IF heap[sequence[k]].link # NoLink
                  THEN (heap[sequence[k]].counter + 1) % heap[sequence[k]].frequency
                  ELSE heap[sequence[k]].counter]_vars

\* A Jump with a link and a frequency of 2 or more has just been executed
\* without firing (the program counter is not at its Label) and its counter
\* has wrapped to 0.
BoundJumpAdvancedUnfired ==
    /\ enabled
    /\ ran.obj \in DOMAIN heap
    /\ heap[ran.obj].cls = "Jump"
    /\ heap[ran.obj].link # NoLink
    /\ heap[ran.obj].frequency >= 2
    /\ heap[ran.obj].counter = 0
    /\ index # heap[heap[ran.obj].link].index

-----------------------------------------------------------------------------
(* The commands of a Point. *)

\* The rows of the commands that belong to the Point of row p: the rows
\* after p that construct a command with no row constructing a Point in
\* between.
CommandRows(made, p) ==
    {r \in (p + 1)..Len(made) :
        /\ made[r].ok
        /\ made[r].obj.cls = "Command"
        /\ \A q \in (p + 1)..(r - 1) : ~(made[q].ok /\ made[q].obj.cls = "Point")}

\* The commands of Point o are, in the order of the rows, the commands of
\* the rows that belong to it.
CommandsInRowOrder(made, o) ==
    /\ \A c \in 1..(Len(o.commands) - 1) : o.commands[c].row < o.commands[c + 1].row
    /\ {o.commands[c].row : c \in 1..Len(o.commands)} = CommandRows(made, o.row)
    /\ \A c \in 1..Len(o.commands) :
          /\ o.commands[c].id = made[o.commands[c].row].obj.id
          /\ o.commands[c].args = made[o.commands[c].row].obj.args

\* No command is in the sequence and every Point has the commands of its
\* rows.
CommandsAttached(made) ==
    \A k \in 1..Len(sequence) :
       /\ heap[sequence[k]].cls # "Command"
       /\ heap[sequence[k]].cls = "Point" => CommandsInRowOrder(made, heap[sequence[k]])

\* C17: after the compile every constructed command is, in row order, in
\* the commands of the Point constructed last before it and never in the
\* sequence; a command constructed before any Point is in the commands of
\* no Point.
CommandsGoToLastPoint ==
    ret = "true" => CommandsAttached(SourceRows)

\* The first row of the file constructs a command, the second a Point and
\* the third a command.
CommandPointCommand(made) ==
    /\ Len(made) = 3
    /\ made[1].ok /\ made[1].obj.cls = "Command"
    /\ made[2].ok /\ made[2].obj.cls = "Point"
    /\ made[3].ok /\ made[3].obj.cls = "Command"

\* A file of a command, a Point and a command has been loaded: the Point
\* has the command of row 3 only.
CommandBeforePointDropped ==
    /\ ret = "true"
    /\ CommandPointCommand(SourceRows)
    /\ Len(sequence) = 1
    /\ Len(heap[sequence[1]].commands) = 1
    /\ heap[sequence[1]].commands[1].row = 3

-----------------------------------------------------------------------------
(* A Point constructed with skip. *)

\* The executions numbered c to c + n - 1 of the history hist hold one
\* firing of Point o and nothing else.
FiresOnceIn(hist, c, n, o) ==
    /\ Cardinality({d \in c..(c + n - 1) : hist[d] = Fires(o)}) = 1
    /\ \A d \in c..(c + n - 1) : hist[d] \in {<<>>, Fires(o)}

\* C18: a Point constructed with skip true and frequency N does nothing on
\* its first execution with the flag on, and every N executions in a row
\* after the first hold exactly one firing.
SkippedPointStartsLate ==
    \A i \in DOMAIN heap :
       (heap[i].cls = "Point" /\ Skips(heap[i]) /\ Calls(i) # <<>>) =>
          /\ Calls(i)[1] = <<>>
          /\ \A c \in 2..(Len(Calls(i)) - heap[i].frequency + 1) :
                FiresOnceIn(Calls(i), c, heap[i].frequency, heap[i])

\* A Point with skip true and frequency 1 has been executed three times:
\* nothing the first time, a firing the second and the third time.
SkippedPointOfFrequencyOne ==
    \E i \in DOMAIN heap :
       /\ heap[i].cls = "Point" /\ Skips(heap[i])
       /\ heap[i].frequency = 1
       /\ Len(Calls(i)) >= 3
       /\ Calls(i)[1] = <<>>
       /\ Calls(i)[2] = Fires(heap[i])
       /\ Calls(i)[3] = Fires(heap[i])

-----------------------------------------------------------------------------
(* The flag during an execution. *)

\* The call at the head of the calls to make takes effect: the counter
\* advances or the command is executed.
CallTakesEffect ==
    IF Head(ran.todo) = "count"
    THEN heap'[ran.obj].counter
            = (heap[ran.obj].counter + 1) % heap[ran.obj].frequency
    ELSE ran'.effects = Append(ran.effects, Head(ran.todo))

\* C19, as stated: the flag is asked for once per execution, so every call
\* of a main() that has begun takes effect, whatever the flag is by then.
StartedExecutionCompletes ==
    [][Step => CallTakesEffect]_vars

\* C19, amended: the flag is asked for when an execution begins and again
\* at every command's execute() and at the counter's increment: each of
\* these takes effect when the flag is on at that moment and is dropped
\* when it is off.  A bound Jump has transferred before its counter's
\* increment asks for the flag.
GatedCallsFollowFlag ==
    [][/\ Step => IF enabled THEN CallTakesEffect
                  ELSE heap' = heap /\ ran'.effects = ran.effects
       /\ \A k \in 1..Len(sequence) :
             (/\ enabled
              /\ heap[sequence[k]].cls = "Jump"
              /\ heap[sequence[k]].link # NoLink
              /\ heap[sequence[k]].counter = 0
              /\ Begin(k))
             => /\ index' = heap[heap[sequence[k]].link].index
                /\ heap' = heap]_vars

\* The flag was turned off after the move of a Point that adjusts and has
\* commands: the execution is over with the move alone and the counter,
\* of a frequency of 2 or more, still 0.
FlagTurnedOffAfterMove ==
    /\ ~enabled
    /\ Idle
    /\ ran.obj \in DOMAIN heap
    /\ heap[ran.obj].cls = "Point"
    /\ heap[ran.obj].adjust
    /\ heap[ran.obj].commands # <<>>
    /\ heap[ran.obj].frequency >= 2
    /\ ran.effects = <<"Move">>
    /\ heap[ran.obj].counter = 0

-----------------------------------------------------------------------------
(* The program counter. *)

\* Routine.index is 0 or the index of a Label of the sequence, and a
\* position of the sequence when there is one.
PcValid ==
    /\ \/ index = 0
       \/ \E k \in 1..Len(sequence) :
             /\ heap[sequence[k]].cls = "Label"
             /\ heap[sequence[k]].index = index
    /\ sequence # <<>> => index \in 0..(Len(sequence) - 1)

\* The step is a successful load or the execution, with the flag on, of a
\* Jump that has a link and whose counter is 0.
LoadOrFiringJump ==
    \/ ret' = "true"
    \/ \E k \in 1..Len(sequence) :
          /\ enabled
          /\ heap[sequence[k]].cls = "Jump"
          /\ heap[sequence[k]].link # NoLink
          /\ heap[sequence[k]].counter = 0
          /\ Execute(k)

\* C20: through loads and executions Routine.index is 0 or the index of a
\* Label of the sequence, hence a position of a sequence that is not empty;
\* the execution of a Point, a Label or a Setting leaves it as it is, and
\* only a load and a firing Jump with a link write it.
PcIsZeroOrLabel ==
    [][/\ PcValid'
       /\ \A k \in 1..Len(sequence) :
             (heap[sequence[k]].cls \in {"Point", "Label", "Setting"} /\ Execute(k))
             => index' = index
       /\ index' # index => LoadOrFiringJump]_vars

\* A Jump has fired and Routine.index, no longer 0, is the position of the
\* Label it is linked to.
PcAtLabelAfterJump ==
    /\ index # 0
    /\ index < Len(sequence)
    /\ heap[sequence[index + 1]].cls = "Label"
    /\ ran.obj \in DOMAIN heap
    /\ heap[ran.obj].cls = "Jump"
    /\ heap[ran.obj].link = sequence[index + 1]

====
